---- MODULE Spec2Model ----
(***************************************************************************)
(* Model of stages/serve_buildings/index.js: the dataset loader (loadData, *)
(* start) and the three request handlers (PUT /buildings, GET /start,      *)
(* GET /health) of the building-serving process.                           *)
(*                                                                         *)
(* Numbers.  Coordinates and distances are integers.  For integers of this *)
(* size every product, sum and difference of calculateDistance is exact in *)
(* IEEE doubles and Math.sqrt is correctly rounded, so                     *)
(*     Math.sqrt(r) <= m   iff   m >= 0 and r <= m * m.                    *)
(* calculateDistance is therefore modelled by the radicand r it takes the  *)
(* root of, and the comparison of line 37 by SqrtLeq.                      *)
(*                                                                         *)
(* JSON.  A value of a request body is a record [t, v]: t is its JSON type *)
(* ("num", "numstr" a string holding a number, "str" any other string,     *)
(* "null", "bool") or "absent" for a missing property; v is the number it  *)
(* denotes.  null as an address is the string NULL.                        *)
(***************************************************************************)
EXTENDS Integers, Sequences, FiniteSets, TLC

VARIABLES
  buildingsFile,   \* ../import/buildings.json as found on disk
  itcFile,         \* ../import/itc.json as found on disk
  pc,              \* position of start()
  buildingsData,   \* index.js:7
  itcData,         \* index.js:8
  loadCalls,       \* number of calls of loadData so far
  assigned,        \* number of assignments made to buildingsData / itcData
  exitCode,        \* argument of process.exit, -1 while the process runs
  last,            \* the request answered last and its response
  emitted,         \* modelIds emitted by the queries answered before the last
  scan,            \* the request being handled, step by step (SpecScan)
  models,          \* the substitution data a query reads (SpecConfig)
  viewer           \* the viewer: App and CameraController (SpecViewer)

vars == <<buildingsFile, itcFile, pc, buildingsData, itcData, loadCalls,
          assigned, exitCode, last, emitted, scan, models, viewer>>

-----------------------------------------------------------------------------
(* Bounds *)

MaxBuildings == 2     \* buildings in buildings.json
MaxCoord == 1         \* query positions range over 0..MaxCoord
MaxDistance == 2      \* query distances range over 0..MaxDistance

-----------------------------------------------------------------------------
(* Helpers *)

Range(s) == {s[i] : i \in 1..Len(s)}

NULL == "<null>"
UNDEFINED == [t |-> "undefined"]

Pt(x, z) == [x |-> x, z |-> z]

-----------------------------------------------------------------------------
(* index.js:10-22  static substitution data *)

modelsData ==
  << [modelId |-> "1", modelUrl |-> "/itc.fbx",
      buildingIds |-> <<"59831701", "59831708", "59831705">>] >>

\* Variant of the reduce of lines 18-22 that stores the group's modelUrl.
RECURSIVE modelsCacheReduce_storesUrl(_, _)
modelsCacheReduce_storesUrl(acc, i) ==
  IF i > Len(modelsData) THEN acc
  ELSE LET item == modelsData[i]
           bids == Range(item.buildingIds)
       IN modelsCacheReduce_storesUrl(
            [b \in (DOMAIN acc) \cup bids |->
               IF b \in bids THEN item.modelUrl ELSE acc[b]],
            i + 1)

\* modelsData.reduce((acc, item) => { buildingIds.forEach(bid => acc[bid] = modelId) }, {})
RECURSIVE modelsCacheReduce(_, _)
modelsCacheReduce(acc, i) ==
  IF i > Len(modelsData) THEN acc
  ELSE LET item == modelsData[i]
           bids == Range(item.buildingIds)
       IN modelsCacheReduce(
            [b \in (DOMAIN acc) \cup bids |->
               IF b \in bids THEN item.modelId ELSE acc[b]],
            i + 1)

modelsCache == modelsCacheReduce([b \in {} |-> ""], 1)

\* The two constants a query reads, as one value.
Shipped == [data |-> modelsData, cache |-> modelsCache]

-----------------------------------------------------------------------------
(* index.js:27-42  range test *)

\* Variant of calculateDistance that forgets dz.
calculateDistance_dxOnly(point1, point2) ==
  LET dx == point1.x - point2.x
  IN dx * dx

\* The radicand of Math.sqrt(dx * dx + dz * dz).
calculateDistance(point1, point2) ==
  LET dx == point1.x - point2.x
      dz == point1.z - point2.z
  IN dx * dx + dz * dz

\* Variant of the comparison of line 37 with >= for <=.
SqrtLeq_flipped(r, maxDistance) == maxDistance < 0 \/ r >= maxDistance * maxDistance

\* Variant of the comparison of line 37 with < for <=.
SqrtLeq_strict(r, maxDistance) == maxDistance >= 0 /\ r < maxDistance * maxDistance

\* Math.sqrt(r) <= maxDistance
SqrtLeq(r, maxDistance) == maxDistance >= 0 /\ r <= maxDistance * maxDistance

\* Variant of isBuildingWithinDistance that wants every node in range.
isBuildingWithinDistance_everyNode(building, center, maxDistance) ==
  /\ Len(building.nodes) > 0
  /\ \A i \in 1..Len(building.nodes) :
       SqrtLeq(calculateDistance(building.nodes[i], center), maxDistance)

\* Variant of isBuildingWithinDistance that returns false at the first node
\* out of range and true otherwise.
isBuildingWithinDistance_noneOutside(building, center, maxDistance) ==
  \A i \in 1..Len(building.nodes) :
    SqrtLeq(calculateDistance(building.nodes[i], center), maxDistance)

\* Variant of isBuildingWithinDistance that asks for an outline with an
\* edge before it tests the nodes.
isBuildingWithinDistance_needsEdge(building, center, maxDistance) ==
  /\ Len(building.nodes) >= 2
  /\ \E i \in 1..Len(building.nodes) :
       SqrtLeq(calculateDistance(building.nodes[i], center), maxDistance)

isBuildingWithinDistance(building, center, maxDistance) ==
  \E i \in 1..Len(building.nodes) :
    SqrtLeq(calculateDistance(building.nodes[i], center), maxDistance)

-----------------------------------------------------------------------------
(* index.js:76-87  body schema, compiled by the validator of the fastify   *)
(* instance of line 1.  The instance is created with default options, so   *)
(* the validator is Ajv with coerceTypes: a property of type "number"      *)
(* accepts a number, and also a string holding a number, a boolean and     *)
(* null, which it replaces by the number before the handler runs.          *)

Absent == [t |-> "absent", v |-> 0]
Num(n) == [t |-> "num", v |-> n]

coerceNumber(val) ==
  CASE val.t = "num"    -> [ok |-> TRUE, v |-> val.v]
    [] val.t = "numstr" -> [ok |-> TRUE, v |-> val.v]
    [] val.t = "bool"   -> [ok |-> TRUE, v |-> val.v]
    [] val.t = "null"   -> [ok |-> TRUE, v |-> 0]
    [] OTHER            -> [ok |-> FALSE, v |-> 0]

\* positionScheme: type object, required x and z, both of type number
validatePosition(pos) ==
  LET cx == coerceNumber(pos.x)
      cz == coerceNumber(pos.z)
  IN [ok |-> pos.t = "obj" /\ pos.x.t # "absent" /\ pos.z.t # "absent"
              /\ cx.ok /\ cz.ok,
      value |-> Pt(cx.v, cz.v)]

\* body: required position and distance; distance of type number, minimum 0
validateBody(body) ==
  LET p == validatePosition(body.position)
      d == coerceNumber(body.distance)
  IN [ok |-> body.position.t # "absent" /\ body.distance.t # "absent"
              /\ p.ok /\ d.ok /\ d.v >= 0,
      position |-> p.value,
      distance |-> d.v]

-----------------------------------------------------------------------------
(* index.js:121-152  createMapPolygonData / filterPolygon *)

NullPolygon == [id |-> NULL]

\* The id of a polygon that has no id property.
UndefinedId == "<undefined>"

\* modelsData.find((d) => d.modelId === modelId): index of the first match,
\* 0 if none; data is the modelsData the closure sees
findModelIn(data, modelId) ==
  IF \E i \in 1..Len(data) : data[i].modelId = modelId
  THEN CHOOSE i \in 1..Len(data) :
         /\ data[i].modelId = modelId
         /\ \A j \in 1..(i - 1) : data[j].modelId # modelId
  ELSE 0

\* The modelUrl of an entry built from no group: the property is undefined.
UndefinedUrl == "<undefined>"

\* Variant of filterPolygon that reads the modelUrl with ?. and so returns
\* the entry without a modelUrl when no group has the modelId.
filterPolygonIn_optionalUrl(m, polygon, usedModelCache) ==
  LET modelId == IF polygon.id \in DOMAIN m.cache
                 THEN m.cache[polygon.id] ELSE ""
      g == findModelIn(m.data, modelId)
  IN IF polygon.id = UndefinedId
     THEN [result |-> NullPolygon, threw |-> TRUE, used |-> usedModelCache]
     ELSE IF modelId # ""
     THEN IF modelId \notin usedModelCache
          THEN [result |-> [id |-> polygon.id,
                            address |-> polygon.address,
                            height |-> polygon.height,
                            nodes |-> <<>>,
                            modelId |-> modelId,
                            modelUrl |-> IF g = 0 THEN UndefinedUrl
                                         ELSE m.data[g].modelUrl],
                threw |-> FALSE,
                used |-> usedModelCache \cup {modelId}]
          ELSE [result |-> NullPolygon, threw |-> FALSE, used |-> usedModelCache]
     ELSE [result |-> polygon, threw |-> FALSE, used |-> usedModelCache]

\* Variant of filterPolygon that does not consult usedModelCache: every
\* member of a group gets a substituted entry.
filterPolygonIn_everyMember(m, polygon, usedModelCache) ==
  LET modelId == IF polygon.id \in DOMAIN m.cache
                 THEN m.cache[polygon.id] ELSE ""
      g == findModelIn(m.data, modelId)
  IN IF polygon.id = UndefinedId \/ (modelId # "" /\ g = 0)
     THEN [result |-> NullPolygon, threw |-> TRUE, used |-> usedModelCache]
     ELSE IF modelId # ""
     THEN [result |-> [id |-> polygon.id,
                       address |-> polygon.address,
                       height |-> polygon.height,
                       nodes |-> <<>>,
                       modelId |-> modelId,
                       modelUrl |-> m.data[g].modelUrl],
           threw |-> FALSE,
           used |-> usedModelCache \cup {modelId}]
     ELSE [result |-> polygon, threw |-> FALSE, used |-> usedModelCache]

\* One call of filterPolygon with the closure's usedModelCache (the set of
\* modelIds set to true); m holds the modelsData and modelsCache the closure
\* sees.  threw: startsWith of undefined (line 125) or reading modelUrl of
\* undefined (line 143).
filterPolygonIn(m, polygon, usedModelCache) ==
  LET modelId == IF polygon.id \in DOMAIN m.cache
                 THEN m.cache[polygon.id] ELSE ""
  IN IF polygon.id = UndefinedId
     THEN [result |-> NullPolygon, threw |-> TRUE, used |-> usedModelCache]
     ELSE IF modelId # ""
     THEN IF modelId \notin usedModelCache
          THEN LET g == findModelIn(m.data, modelId)
               IN IF g = 0
                  THEN [result |-> NullPolygon, threw |-> TRUE,
                        used |-> usedModelCache \cup {modelId}]
                  ELSE [result |-> [id |-> polygon.id,
                                    address |-> polygon.address,
                                    height |-> polygon.height,
                                    nodes |-> <<>>,
                                    modelId |-> modelId,
                                    modelUrl |-> m.data[g].modelUrl],
                        threw |-> FALSE,
                        used |-> usedModelCache \cup {modelId}]
          ELSE [result |-> NullPolygon, threw |-> FALSE, used |-> usedModelCache]
     ELSE [result |-> polygon, threw |-> FALSE, used |-> usedModelCache]

filterPolygon(polygon, usedModelCache) ==
  filterPolygonIn(Shipped, polygon, usedModelCache)

\* .map(createMapPolygonData()): filterPolygon over the candidates in order,
\* one usedModelCache for the whole pass.
RECURSIVE mapPolygonsIn(_, _, _, _, _)
mapPolygonsIn(m, cands, i, usedModelCache, out) ==
  IF i > Len(cands) THEN [out |-> out, threw |-> FALSE]
  ELSE LET r == filterPolygonIn(m, cands[i], usedModelCache)
       IN IF r.threw THEN [out |-> out, threw |-> TRUE]
          ELSE mapPolygonsIn(m, cands, i + 1, r.used, Append(out, r.result))

mapPolygons(cands, i, usedModelCache, out) ==
  mapPolygonsIn(Shipped, cands, i, usedModelCache, out)

-----------------------------------------------------------------------------
(* index.js:114-178  PUT /buildings handler *)

\* Variant of the filter of lines 155-158 that hands the buildings on
\* nearest first.
nearestNode(building, position) ==
  CHOOSE m \in { calculateDistance(building.nodes[i], position) :
                   i \in 1..Len(building.nodes) } :
    \A i \in 1..Len(building.nodes) :
      m <= calculateDistance(building.nodes[i], position)

RECURSIVE nearestFirst(_, _)
nearestFirst(bs, position) ==
  IF Len(bs) = 0 THEN << >>
  ELSE LET k == CHOOSE k \in 1..Len(bs) :
                  \A j \in 1..Len(bs) :
                    \/ nearestNode(bs[k], position) < nearestNode(bs[j], position)
                    \/ (nearestNode(bs[k], position) = nearestNode(bs[j], position)
                        /\ k <= j)
       IN <<bs[k]>> \o nearestFirst(
            SubSeq(bs, 1, k - 1) \o SubSeq(bs, k + 1, Len(bs)), position)

inRangeBuildings_nearestFirst(data, position, distance) ==
  nearestFirst(
    SelectSeq(data, LAMBDA building :
                      isBuildingWithinDistance(building, position, distance)),
    position)

\* lines 155-158
inRangeBuildings(data, position, distance) ==
  SelectSeq(data, LAMBDA building :
                    isBuildingWithinDistance(building, position, distance))

\* Variant of lines 155-160 that reads the first candidate before mapping
\* and so throws when there is none.
filteredBuildingsOf_readsFirst(data, position, distance) ==
  LET c == inRangeBuildings(data, position, distance)
      m == mapPolygons(c, 1, {}, <<>>)
  IN [threw |-> m.threw \/ Len(c) = 0,
      list |-> SelectSeq(m.out, LAMBDA x : x # NullPolygon)]

\* Variant of lines 155-160 that applies filterPolygon to every building of
\* the list and tests the range afterwards, on the nodes of the dataset.
filteredBuildingsOf_mapBeforeRange(data, position, distance) ==
  LET m == mapPolygons(data, 1, {}, <<>>)
      inRangeId(x) ==
        \E k \in 1..Len(data) :
          /\ data[k].id = x.id
          /\ isBuildingWithinDistance(data[k], position, distance)
  IN [threw |-> m.threw,
      list |-> SelectSeq(m.out, LAMBDA x : x # NullPolygon /\ inRangeId(x))]

\* lines 155-160
filteredBuildingsOf(data, position, distance) ==
  LET m == mapPolygons(inRangeBuildings(data, position, distance), 1, {}, <<>>)
  IN [threw |-> m.threw,
      list |-> SelectSeq(m.out, LAMBDA x : x # NullPolygon)]

\* lines 167-173: ({ address, height, nodes }) => ({ address, height, nodes })
projectBuilding(b) ==
  [address |-> b.address, height |-> b.height, nodes |-> b.nodes]

responseBuildingsOf(filtered) ==
  [i \in 1..Len(filtered) |-> projectBuilding(filtered[i])]

\* Variant of the item schema without the height property.
ResponseItemProperties_noHeight == {"address", "nodes"}

\* lines 88-111: the 200 schema lists address, height and nodes for an item;
\* the serializer writes the listed properties of each item and no other.
ResponseItemProperties == {"address", "height", "nodes"}

serializeItem(e) == [f \in (DOMAIN e) \cap ResponseItemProperties |-> e[f]]

serializeBuildings(bs) == [i \in 1..Len(bs) |-> serializeItem(bs[i])]

NoBody == [position |-> [t |-> "absent", x |-> Absent, z |-> Absent],
           distance |-> Absent]

NoRequest ==
  [kind |-> "none", body |-> NoBody, status |-> 0, scanned |-> FALSE,
   position |-> Pt(0, 0), distance |-> 0,
   filteredBuildings |-> <<>>, payload |-> <<>>]

\* Variant of the route that answers a rejected body with the client error
\* and with the buildings found for the values the validator got to.
putBuildings_listOnError(data, body) ==
  LET v == validateBody(body)
      f == filteredBuildingsOf(data, v.position, v.distance)
  IN IF ~v.ok
     THEN [kind |-> "put", body |-> body, status |-> 400, scanned |-> FALSE,
           position |-> v.position, distance |-> v.distance,
           filteredBuildings |-> f.list,
           payload |-> serializeBuildings(responseBuildingsOf(f.list))]
     ELSE IF f.threw
          THEN [kind |-> "put", body |-> body, status |-> 500,
                scanned |-> TRUE,
                position |-> v.position, distance |-> v.distance,
                filteredBuildings |-> <<>>, payload |-> <<>>]
          ELSE [kind |-> "put", body |-> body, status |-> 200,
                scanned |-> TRUE,
                position |-> v.position, distance |-> v.distance,
                filteredBuildings |-> f.list,
                payload |-> serializeBuildings(responseBuildingsOf(f.list))]

\* The whole route: validation, then the handler, then serialization.
putBuildings(data, body) ==
  LET v == validateBody(body)
  IN IF ~v.ok
     THEN [kind |-> "put", body |-> body, status |-> 400, scanned |-> FALSE,
           position |-> v.position, distance |-> v.distance,
           filteredBuildings |-> <<>>, payload |-> <<>>]
     ELSE LET f == filteredBuildingsOf(data, v.position, v.distance)
          IN IF f.threw
             THEN [kind |-> "put", body |-> body, status |-> 500,
                   scanned |-> TRUE,
                   position |-> v.position, distance |-> v.distance,
                   filteredBuildings |-> <<>>, payload |-> <<>>]
             ELSE [kind |-> "put", body |-> body, status |-> 200,
                   scanned |-> TRUE,
                   position |-> v.position, distance |-> v.distance,
                   filteredBuildings |-> f.list,
                   payload |-> serializeBuildings(responseBuildingsOf(f.list))]

\* Variant of the GET /start handler that swaps the two coordinates.
getStart_swapped(itc) ==
  IF itc.center = UNDEFINED
  THEN [NoRequest EXCEPT !.kind = "start", !.status = 500]
  ELSE [NoRequest EXCEPT !.kind = "start", !.status = 200,
                         !.payload = Pt(itc.center.z, itc.center.x)]

\* index.js:182-204  GET /start
getStart(itc) ==
  IF itc.center = UNDEFINED
  THEN [NoRequest EXCEPT !.kind = "start", !.status = 500]
  ELSE [NoRequest EXCEPT !.kind = "start", !.status = 200,
                         !.payload = Pt(itc.center.x, itc.center.z)]

\* Variant of the GET /health handler that reports itcData, not its center.
getHealth_wholeItc(data, itc) ==
  [NoRequest EXCEPT !.kind = "health", !.status = 200,
                    !.payload = [status |-> "ok",
                                 buildingsLoaded |-> Len(data),
                                 itcCenter |-> itc]]

\* index.js:207-213  GET /health
getHealth(data, itc) ==
  [NoRequest EXCEPT !.kind = "health", !.status = 200,
                    !.payload = [status |-> "ok",
                                 buildingsLoaded |-> Len(data),
                                 itcCenter |-> itc.center]]

-----------------------------------------------------------------------------
(* Inputs: the two files and the request bodies *)

\* Ids of the buildings a file may hold: two of the model group, two others.
PoolIds == {"59831701", "59831708", "100", "200"}

addressOf(id) ==
  CASE id = "59831701" -> "Chkalova, 3"
    [] id = "59831708" -> NULL
    [] id = "100"      -> "Main St 1"
    [] OTHER           -> NULL

heightOf(id) ==
  CASE id = "59831701" -> 12
    [] id = "59831708" -> 9
    [] id = "100"      -> 5
    [] OTHER           -> 0

\* Outlines: a square around the origin whose corners are far from it, and
\* a short wall that starts at the origin.
Footprints ==
  { << Pt(-2, -2), Pt(2, -2), Pt(2, 2), Pt(-2, 2) >>,
    << Pt(0, 0), Pt(1, 0) >> }

BuildingPool ==
  { [id |-> id, address |-> addressOf(id), height |-> heightOf(id),
     nodes |-> ns] : id \in PoolIds, ns \in Footprints }

\* Building lists of at most MaxBuildings buildings with distinct ids.
Datasets ==
  { ds \in UNION { [1..n -> BuildingPool] : n \in 0..MaxBuildings } :
      \A i, j \in 1..Len(ds) : i # j => ds[i].id # ds[j].id }

NoBuildings == << >>

\* A building list whose one building has no id property.
NoIdDataset ==
  << [id |-> UndefinedId, address |-> NULL, height |-> 0,
      nodes |-> << Pt(0, 0), Pt(1, 0) >>] >>

\* buildings.json: absent, not JSON, the JSON text null, an object without
\* a buildings property, an object holding a building list, or an object
\* whose building list holds a building without id.
BuildingsFiles ==
  { [t |-> k, buildings |-> NoBuildings] :
      k \in {"missing", "badjson", "null", "nokey"} }
  \cup { [t |-> "ok", buildings |-> ds] : ds \in Datasets }
  \cup { [t |-> "noid", buildings |-> NoIdDataset] }

Center == Pt(-326, 668)

\* itc.json: absent, not JSON, the JSON text null, an object without a
\* center property, or an object holding the center.
ItcFiles ==
  { [t |-> k, center |-> UNDEFINED] :
      k \in {"missing", "badjson", "null", "nocenter"} }
  \cup { [t |-> "ok", center |-> Center] }

Coords == 0..MaxCoord
Distances == 0..MaxDistance

PosObj(vx, vz) == [t |-> "obj", x |-> vx, z |-> vz]

\* Bodies that name a position and a distance by JSON numbers.
NumericBodies ==
  { [position |-> PosObj(Num(x), Num(z)), distance |-> Num(d)] :
      x \in Coords, z \in Coords, d \in Distances }

\* What a property may hold instead of a number: nothing, null, true, a
\* string holding a number, any other string.
AbsentOrString == { Absent, [t |-> "str", v |-> 0] }
JsonNull == [t |-> "null", v |-> 0]
NonNumbers ==
  AbsentOrString
  \cup { JsonNull, [t |-> "bool", v |-> 1], [t |-> "numstr", v |-> 1] }

\* The body {position: {x: 0, z: 0}, distance: 1} with one part replaced.
DeviantBodies ==
  { [position |-> PosObj(v, Num(0)), distance |-> Num(1)] :
      v \in AbsentOrString \cup {JsonNull} }
  \cup { [position |-> PosObj(Num(0), v), distance |-> Num(1)] :
           v \in AbsentOrString }
  \cup { [position |-> PosObj(Num(0), Num(0)), distance |-> v] :
           v \in NonNumbers \cup {Num(-1)} }
  \cup { [position |-> [t |-> k, x |-> Absent, z |-> Absent],
          distance |-> Num(1)] : k \in {"absent", "str"} }

Bodies == NumericBodies \cup DeviantBodies

-----------------------------------------------------------------------------
(* The handler of one request, statement by statement *)

Idle ==
  [phase |-> "idle", kind |-> "none", body |-> NoBody,
   position |-> Pt(0, 0), distance |-> 0, i |-> 1, j |-> 1,
   cands |-> << >>, out |-> << >>, used |-> {}, visits |-> << >>,
   responses |-> 0, status |-> 0, payload |-> << >>]

\* Ids of the buildings of the files of SpecScan.
ScanIds == {"59831701", "59831708", "100"}

ScanDatasets ==
  { ds \in Datasets : \A i \in 1..Len(ds) : ds[i].id \in ScanIds }

\* Requests of SpecScan: queries from a point of the diagonal, a query with
\* a negative distance, GET /start and GET /health.
ScanRequests ==
  { [kind |-> "put",
     body |-> [position |-> PosObj(Num(k), Num(k)), distance |-> Num(d)]] :
      k \in Coords, d \in Distances \cup {-1} }
  \cup { [kind |-> k, body |-> NoBody] : k \in {"start", "health"} }

-----------------------------------------------------------------------------
(* display_buildings/src/App.tsx: the viewer *)

\* Lengths of the viewer are in tenths of a unit.
\* line 21: ITC_CENTER = { x: -326.31, z: 668.04 }, to the tenth
ITC_CENTER == Pt(-3263, 6680)

moveSpeed == 20       \* line 292: 2.0
FixedHeight == 18     \* line 347: 1.8

\* line 165: the camera of the Canvas, 10 units from the centre; lines
\* 218-225: the target of the OrbitControls
StartCamera ==
  [x |-> ITC_CENTER.x, y |-> FixedHeight, z |-> ITC_CENTER.z + 10 * 10,
   target |-> [x |-> ITC_CENTER.x, y |-> FixedHeight, z |-> ITC_CENTER.z]]

\* lines 236-241: moveState
NoMove == [forward |-> FALSE, backward |-> FALSE, left |-> FALSE,
           right |-> FALSE]

\* getWorldDirection without its vertical part, normalized (lines 305-310):
\* one of the four axes, or the zero vector when the camera looks straight
\* down or up.
Headings == { Pt(0, -1), Pt(1, 0), Pt(0, 1), Pt(-1, 0), Pt(0, 0) }

\* What the fetch of line 95 and the json() of line 110 come to: the fetch
\* rejects, or a response arrives with a status and a body that is no JSON,
\* a JSON object without buildings, or one with a buildings list.
NoOutcome ==
  [t |-> "none", status |-> 0, json |-> "none", buildings |-> << >>]

Rejected ==
  [t |-> "rejected", status |-> 0, json |-> "none", buildings |-> << >>]

ResponseOf(status, json, buildings) ==
  [t |-> "response", status |-> status, json |-> json, buildings |-> buildings]

\* lines 85-87: the state of App before its effect ran, with the outcome
\* its fetch came to, and the refs of a CameraController that is not mounted
NotMounted ==
  [phase |-> "unmounted", loading |-> TRUE, error |-> NULL,
   buildings |-> << >>, outcome |-> NoOutcome, moveState |-> NoMove,
   camera |-> StartCamera, heading |-> Pt(0, -1), step |-> "none"]

QueryDistance == 5000    \* line 102: 500

\* lines 100-103: the body of the request of fetchBuildings
ViewerBody ==
  [position |-> PosObj(Num(ITC_CENTER.x), Num(ITC_CENTER.z)),
   distance |-> Num(QueryDistance)]

\* Variant of fetchBuildings whose catch leaves loading as it is.
fetchBuildings_loadingInTry(v, outcome) ==
  IF outcome.t = "rejected"
  THEN [v EXCEPT !.phase = "finished", !.error = "Failed to fetch"]
  ELSE IF outcome.status \notin 200..299
  THEN [v EXCEPT !.phase = "finished", !.error = "HTTP error!"]
  ELSE IF outcome.json = "invalid"
  THEN [v EXCEPT !.phase = "finished", !.error = "SyntaxError"]
  ELSE [v EXCEPT !.phase = "finished", !.loading = FALSE,
                 !.buildings = IF outcome.json = "nokey" THEN << >>
                               ELSE outcome.buildings]

\* lines 106-119: fetchBuildings from the settling of the fetch on.  A
\* rejection, a status outside 200-299 (response.ok) and a body that is no
\* JSON end in the catch, which sets error; the finally sets loading.
fetchBuildings(v, outcome) ==
  IF outcome.t = "rejected"
  THEN [v EXCEPT !.phase = "finished", !.loading = FALSE,
                 !.error = "Failed to fetch"]
  ELSE IF outcome.status \notin 200..299
  THEN [v EXCEPT !.phase = "finished", !.loading = FALSE,
                 !.error = "HTTP error!"]
  ELSE IF outcome.json = "invalid"
  THEN [v EXCEPT !.phase = "finished", !.loading = FALSE,
                 !.error = "SyntaxError"]
  ELSE [v EXCEPT !.phase = "finished", !.loading = FALSE,
                 !.buildings = IF outcome.json = "nokey" THEN << >>
                               ELSE outcome.buildings]

\* lines 125-141: what App renders
App_render(v) ==
  IF v.loading THEN "loading"
  ELSE IF v.error # NULL THEN "error"
  ELSE "scene"

DefaultHeight == 3    \* line 53: building.height || 3

\* lines 33-61: the wall from nodes[i] to nodes[(i + 1) % length], i from 0
wallAt(building, i) ==
  LET current == building.nodes[i + 1]
      next == building.nodes[((i + 1) % Len(building.nodes)) + 1]
  IN [key |-> i, from |-> current, to |-> next,
      length2 |-> calculateDistance(next, current),
      height |-> IF building.height = 0 THEN DefaultHeight
                 ELSE building.height]

\* Variant of BuildingMesh whose loop stops before the closing edge.
BuildingMesh_openOutline(building) ==
  IF Len(building.nodes) < 2 THEN << >>
  ELSE SelectSeq([i \in 1..(Len(building.nodes) - 1) |-> wallAt(building, i - 1)],
                 LAMBDA w : w.length2 > 0)

\* lines 23-82: the meshes of one building, none when it has fewer than two
\* nodes; a wall is pushed when its length is positive
BuildingMesh(building) ==
  IF Len(building.nodes) < 2 THEN << >>
  ELSE SelectSeq([i \in 1..Len(building.nodes) |-> wallAt(building, i - 1)],
                 LAMBDA w : w.length2 > 0)

\* lines 198-200: the meshes of the scene, building by building
sceneOf(v) ==
  IF App_render(v) = "scene"
  THEN [k \in 1..Len(v.buildings) |-> BuildingMesh(v.buildings[k])]
  ELSE << >>


-----------------------------------------------------------------------------
(* State machine *)

Init ==
  /\ buildingsFile \in BuildingsFiles
  /\ itcFile \in ItcFiles
  /\ pc = "start"
  /\ buildingsData = << >>                   \* line 7
  /\ itcData = [center |-> UNDEFINED]        \* line 8
  /\ loadCalls = 0
  /\ assigned = [buildingsData |-> 0, itcData |-> 0]
  /\ exitCode = -1
  /\ last = NoRequest
  /\ emitted = {}
  /\ scan = Idle
  /\ models = Shipped
  /\ viewer = NotMounted

\* lines 237-240: the catch of start
Exit ==
  /\ pc' = "exited"
  /\ exitCode' = 1

\* Variant of start that goes on to the registrations without loadData.
CallLoadData_skipped ==
  /\ pc = "start"
  /\ pc' = "registerCors"
  /\ UNCHANGED <<buildingsFile, itcFile, buildingsData, itcData, loadCalls,
                 assigned, exitCode, last, emitted, scan, models, viewer>>

\* lines 216-219, 45-49: start calls loadData, which asks for buildings.json
CallLoadData ==
  /\ pc = "start"
  /\ pc' = "readBuildings"
  /\ loadCalls' = loadCalls + 1
  /\ UNCHANGED <<buildingsFile, itcFile, buildingsData, itcData, assigned,
                 exitCode, last, emitted, scan, models, viewer>>

\* lines 49-51 fail: readFile rejects, JSON.parse throws, or null.buildings
LoadBuildingsFails ==
  /\ pc = "readBuildings"
  /\ buildingsFile.t \in {"missing", "badjson", "null"}
  /\ Exit
  /\ UNCHANGED <<buildingsFile, itcFile, buildingsData, itcData, loadCalls,
                 assigned, last, emitted, scan, models, viewer>>

\* lines 49-55: buildingsData = parsedBuildings.buildings || []
LoadBuildings ==
  /\ pc = "readBuildings"
  /\ buildingsFile.t \in {"nokey", "ok", "noid"}
  /\ buildingsData' = IF buildingsFile.t \in {"ok", "noid"}
                      THEN buildingsFile.buildings
                      ELSE << >>
  /\ assigned' = [assigned EXCEPT !.buildingsData = @ + 1]
  /\ pc' = "readItc"
  /\ UNCHANGED <<buildingsFile, itcFile, itcData, loadCalls, exitCode, last,
                 emitted, scan, models, viewer>>

\* lines 55-56 fail: readFile rejects or JSON.parse throws
LoadItcFails ==
  /\ pc = "readItc"
  /\ itcFile.t \in {"missing", "badjson"}
  /\ Exit
  /\ UNCHANGED <<buildingsFile, itcFile, buildingsData, itcData, loadCalls,
                 assigned, last, emitted, scan, models, viewer>>

\* lines 55-59 with itc.json holding null: itcData = null, then line 59
\* reads null.center and throws
LoadItcNull ==
  /\ pc = "readItc"
  /\ itcFile.t = "null"
  /\ itcData' = [center |-> UNDEFINED, isNull |-> TRUE]
  /\ assigned' = [assigned EXCEPT !.itcData = @ + 1]
  /\ Exit
  /\ UNCHANGED <<buildingsFile, itcFile, buildingsData, loadCalls, last,
                 emitted, scan, models, viewer>>

\* lines 55-59: itcData = JSON.parse(itcContent)
LoadItc ==
  /\ pc = "readItc"
  /\ itcFile.t \in {"nocenter", "ok"}
  /\ itcData' = [center |-> itcFile.center]
  /\ assigned' = [assigned EXCEPT !.itcData = @ + 1]
  /\ pc' = "registerCors"
  /\ UNCHANGED <<buildingsFile, itcFile, buildingsData, loadCalls, exitCode,
                 last, emitted, scan, models, viewer>>

\* lines 222-226
RegisterCors ==
  /\ pc = "registerCors"
  /\ pc' = "registerStatic"
  /\ UNCHANGED <<buildingsFile, itcFile, buildingsData, itcData, loadCalls,
                 assigned, exitCode, last, emitted, scan, models, viewer>>

\* lines 229-232
RegisterStatic ==
  /\ pc = "registerStatic"
  /\ pc' = "listen"
  /\ UNCHANGED <<buildingsFile, itcFile, buildingsData, itcData, loadCalls,
                 assigned, exitCode, last, emitted, scan, models, viewer>>

\* line 235
Listen ==
  /\ pc = "listen"
  /\ pc' = "listening"
  /\ UNCHANGED <<buildingsFile, itcFile, buildingsData, itcData, loadCalls,
                 assigned, exitCode, last, emitted, scan, models, viewer>>

\* line 235 rejects (the port is taken)
ListenFails ==
  /\ pc = "listen"
  /\ Exit
  /\ UNCHANGED <<buildingsFile, itcFile, buildingsData, itcData, loadCalls,
                 assigned, last, emitted, scan, models, viewer>>

\* The modelIds of the substituted entries of a response.
emittedBy(response) ==
  { response.filteredBuildings[i].modelId :
      i \in { j \in 1..Len(response.filteredBuildings) :
                "modelId" \in DOMAIN response.filteredBuildings[j] } }

\* Variant of the route whose usedModelCache is one object for all
\* requests: a query starts with the groups earlier queries have emitted.
putBuildings_sharedCache(data, body, usedModelCache) ==
  LET v == validateBody(body)
      m == mapPolygons(inRangeBuildings(data, v.position, v.distance), 1,
                       usedModelCache, <<>>)
      list == SelectSeq(m.out, LAMBDA x : x # NullPolygon)
  IN IF ~v.ok \/ m.threw
     THEN putBuildings(data, body)
     ELSE [kind |-> "put", body |-> body, status |-> 200, scanned |-> TRUE,
           position |-> v.position, distance |-> v.distance,
           filteredBuildings |-> list,
           payload |-> serializeBuildings(responseBuildingsOf(list))]

PutBuildings_sharedCache ==
  /\ pc = "listening"
  /\ \E body \in Bodies :
       last' = putBuildings_sharedCache(buildingsData, body,
                                        emitted \cup emittedBy(last))
  /\ emitted' = emitted \cup emittedBy(last)
  /\ UNCHANGED <<buildingsFile, itcFile, pc, buildingsData, itcData,
                 loadCalls, assigned, exitCode, scan, models, viewer>>

\* Variant of the route whose filterPolygon empties the nodes of the stored
\* polygon (polygon.nodes = []) where the code builds a new object.
PutBuildings_emptiesStoredNodes ==
  /\ pc = "listening"
  /\ \E body \in Bodies : last' = putBuildings(buildingsData, body)
  /\ emitted' = emitted \cup emittedBy(last)
  /\ buildingsData' =
       [k \in 1..Len(buildingsData) |->
          IF \E i \in 1..Len(last'.filteredBuildings) :
               /\ last'.filteredBuildings[i].id = buildingsData[k].id
               /\ "modelId" \in DOMAIN last'.filteredBuildings[i]
          THEN [buildingsData[k] EXCEPT !.nodes = << >>]
          ELSE buildingsData[k]]
  /\ UNCHANGED <<buildingsFile, itcFile, pc, itcData,
                 loadCalls, assigned, exitCode, scan, models, viewer>>

\* lines 76-179
PutBuildings ==
  /\ pc = "listening"
  /\ \E body \in Bodies : last' = putBuildings(buildingsData, body)
  /\ emitted' = emitted \cup emittedBy(last)
  /\ UNCHANGED <<buildingsFile, itcFile, pc, buildingsData, itcData,
                 loadCalls, assigned, exitCode, scan, models, viewer>>

\* lines 182-204
GetStart ==
  /\ pc = "listening"
  /\ last' = getStart(itcData)
  /\ emitted' = emitted \cup emittedBy(last)
  /\ UNCHANGED <<buildingsFile, itcFile, pc, buildingsData, itcData,
                 loadCalls, assigned, exitCode, scan, models, viewer>>

\* lines 207-213
GetHealth ==
  /\ pc = "listening"
  /\ last' = getHealth(buildingsData, itcData)
  /\ emitted' = emitted \cup emittedBy(last)
  /\ UNCHANGED <<buildingsFile, itcFile, pc, buildingsData, itcData,
                 loadCalls, assigned, exitCode, scan, models, viewer>>

Next ==
  \/ CallLoadData
  \/ LoadBuildingsFails
  \/ LoadBuildings
  \/ LoadItcFails
  \/ LoadItcNull
  \/ LoadItc
  \/ RegisterCors
  \/ RegisterStatic
  \/ Listen
  \/ ListenFails
  \/ PutBuildings
  \/ GetStart
  \/ GetHealth

Spec == Init /\ [][Next]_vars

TypeOK ==
  /\ pc \in {"start", "readBuildings", "readItc", "registerCors",
             "registerStatic", "listen", "listening", "exited"}
  /\ last.kind \in {"none", "put", "start", "health"}
  /\ last.status \in {0, 200, 400, 500}

-----------------------------------------------------------------------------
(* SpecScan: the server with its handlers run statement by statement.  The  *)
(* handlers are async functions without await, so one request is handled    *)
(* from its first statement to its reply before the next one starts.        *)

InitScan ==
  /\ Init
  /\ buildingsFile.t \in {"ok", "noid"}
  /\ buildingsFile.t = "ok" => buildingsFile.buildings \in ScanDatasets
  /\ itcFile.t \in {"ok", "nocenter"}

ScanFrame ==
  UNCHANGED <<buildingsFile, itcFile, pc, buildingsData, itcData, loadCalls,
              assigned, exitCode, last, emitted, models, viewer>>

\* A request arrives while the server listens and no handler is running.
Receive ==
  /\ pc = "listening"
  /\ scan.phase \in {"idle", "done"}
  /\ \E req \in ScanRequests :
       scan' = [Idle EXCEPT !.phase = "received", !.kind = req.kind,
                            !.body = req.body]
  /\ ScanFrame

\* lines 79-87: the body is validated; a rejected body is answered 400
ValidateBody ==
  /\ scan.phase = "received"
  /\ scan.kind = "put"
  /\ LET v == validateBody(scan.body)
     IN scan' = IF v.ok
                THEN [scan EXCEPT !.phase = "filter", !.position = v.position,
                                  !.distance = v.distance]
                ELSE [scan EXCEPT !.phase = "done", !.status = 400,
                                  !.responses = @ + 1]
  /\ ScanFrame

\* lines 35-39: one pass of the loop of isBuildingWithinDistance for the
\* building the filter of line 156 is at
FilterNode ==
  /\ scan.phase = "filter"
  /\ scan.i <= Len(buildingsData)
  /\ scan.j <= Len(buildingsData[scan.i].nodes)
  /\ LET building == buildingsData[scan.i]
         distance == calculateDistance(building.nodes[scan.j], scan.position)
     IN scan' = IF SqrtLeq(distance, scan.distance)
                THEN [scan EXCEPT !.visits = Append(@, <<scan.i, scan.j>>),
                                  !.cands = Append(@, building),
                                  !.i = @ + 1, !.j = 1]
                ELSE [scan EXCEPT !.visits = Append(@, <<scan.i, scan.j>>),
                                  !.j = @ + 1]
  /\ ScanFrame

\* line 41: the loop is over, return false
FilterNextBuilding ==
  /\ scan.phase = "filter"
  /\ scan.i <= Len(buildingsData)
  /\ scan.j > Len(buildingsData[scan.i].nodes)
  /\ scan' = [scan EXCEPT !.i = @ + 1, !.j = 1]
  /\ ScanFrame

\* lines 158-159: the filter is over, createMapPolygonData() is called
FilterDone ==
  /\ scan.phase = "filter"
  /\ scan.i > Len(buildingsData)
  /\ scan' = [scan EXCEPT !.phase = "map", !.i = 1, !.j = 1, !.used = {}]
  /\ ScanFrame

\* lines 124-149: filterPolygon for the next candidate; a throw is
\* answered 500
MapPolygon ==
  /\ scan.phase = "map"
  /\ scan.i <= Len(scan.cands)
  /\ LET r == filterPolygon(scan.cands[scan.i], scan.used)
     IN scan' = IF r.threw
                THEN [scan EXCEPT !.phase = "done", !.status = 500,
                                  !.responses = @ + 1]
                ELSE [scan EXCEPT !.out = Append(@, r.result),
                                  !.used = r.used, !.i = @ + 1]
  /\ ScanFrame

\* Variant of the end of the handler that returns no reply.
Reply_noReturn ==
  /\ scan.phase = "map"
  /\ scan.i > Len(scan.cands)
  /\ scan' = [scan EXCEPT !.phase = "hung"]
  /\ ScanFrame

\* lines 160-177: the nulls are dropped, the entries projected, the reply
\* returned and serialized by the 200 schema
Reply ==
  /\ scan.phase = "map"
  /\ scan.i > Len(scan.cands)
  /\ LET filteredBuildings == SelectSeq(scan.out, LAMBDA x : x # NullPolygon)
     IN scan' = [scan EXCEPT
                   !.phase = "done", !.status = 200, !.responses = @ + 1,
                   !.payload = serializeBuildings(
                                 responseBuildingsOf(filteredBuildings))]
  /\ ScanFrame

\* lines 198-203, 207-213: the handlers of GET /start and GET /health
AnswerGet ==
  /\ scan.phase = "received"
  /\ scan.kind \in {"start", "health"}
  /\ LET r == IF scan.kind = "start" THEN getStart(itcData)
              ELSE getHealth(buildingsData, itcData)
     IN scan' = [scan EXCEPT !.phase = "done", !.status = r.status,
                             !.responses = @ + 1, !.payload = r.payload]
  /\ ScanFrame

HandlerStep ==
  \/ ValidateBody
  \/ FilterNode
  \/ FilterNextBuilding
  \/ FilterDone
  \/ MapPolygon
  \/ Reply
  \/ AnswerGet

NextScan ==
  \/ CallLoadData
  \/ LoadBuildings
  \/ LoadItc
  \/ RegisterCors
  \/ RegisterStatic
  \/ Listen
  \/ ListenFails
  \/ Receive
  \/ ValidateBody
  \/ FilterNode
  \/ FilterNextBuilding
  \/ FilterDone
  \/ MapPolygon
  \/ Reply
  \/ AnswerGet

\* Node runs a handler that has started to its end: the steps of a handler
\* are taken as long as one is enabled.
SpecScan == InitScan /\ [][NextScan]_vars /\ WF_vars(HandlerStep)

-----------------------------------------------------------------------------
(* SpecConfig: the PUT /buildings route over substitution data that need    *)
(* not be the data of lines 10-22.  modelsCache follows from modelsData in  *)
(* the file as it is; here the mapping may also name a modelId that no      *)
(* entry of modelsData has, which is the case filterPolygon meets at line   *)
(* 143 when find returns undefined.                                         *)

\* modelsCache with building id bid mapped to modelId "2", which no entry
\* of modelsData has.
DanglingCache(bid) ==
  [b \in (DOMAIN modelsCache) \cup {bid} |->
     IF b = bid THEN "2" ELSE modelsCache[b]]

ModelConfigs ==
  { Shipped }
  \cup { [data |-> modelsData, cache |-> DanglingCache(bid)] :
           bid \in {"100", "59831708"} }

\* Outlines a valid dataset does not hold: no vertex, and one vertex.
SparseFootprints == { << >>, << Pt(1, 1) >> }

SparsePool ==
  { [id |-> id, address |-> addressOf(id), height |-> heightOf(id),
     nodes |-> ns] : id \in {"59831701", "100"}, ns \in SparseFootprints }

\* Building lists of at most MaxBuildings buildings with distinct ids, of
\* the outlines of the pool and the sparse ones.
ConfigDatasets ==
  { ds \in UNION { [1..n -> { b \in BuildingPool : b.id \in ScanIds }
                              \cup SparsePool] : n \in 0..MaxBuildings } :
      \A i, j \in 1..Len(ds) : i # j => ds[i].id # ds[j].id }

\* Init with the substitution data drawn from ModelConfigs.
InitConfig ==
  /\ buildingsFile \in { [t |-> "ok", buildings |-> ds] : ds \in ConfigDatasets }
  /\ itcFile = [t |-> "ok", center |-> Center]
  /\ pc = "start"
  /\ buildingsData = << >>
  /\ itcData = [center |-> UNDEFINED]
  /\ loadCalls = 0
  /\ assigned = [buildingsData |-> 0, itcData |-> 0]
  /\ exitCode = -1
  /\ last = NoRequest
  /\ emitted = {}
  /\ scan = Idle
  /\ models \in ModelConfigs
  /\ viewer = NotMounted

\* lines 76-179 with the substitution data m: validation, the range filter,
\* filterPolygon per candidate, the projection and the serialization
putBuildingsIn(m, data, body) ==
  LET v == validateBody(body)
      r == mapPolygonsIn(m, inRangeBuildings(data, v.position, v.distance),
                         1, {}, <<>>)
      list == SelectSeq(r.out, LAMBDA x : x # NullPolygon)
  IN IF ~v.ok
     THEN [kind |-> "put", body |-> body, status |-> 400, scanned |-> FALSE,
           position |-> v.position, distance |-> v.distance,
           filteredBuildings |-> <<>>, payload |-> <<>>]
     ELSE IF r.threw
          THEN [kind |-> "put", body |-> body, status |-> 500,
                scanned |-> TRUE,
                position |-> v.position, distance |-> v.distance,
                filteredBuildings |-> <<>>, payload |-> <<>>]
          ELSE [kind |-> "put", body |-> body, status |-> 200,
                scanned |-> TRUE,
                position |-> v.position, distance |-> v.distance,
                filteredBuildings |-> list,
                payload |-> serializeBuildings(responseBuildingsOf(list))]

PutBuildingsIn ==
  /\ pc = "listening"
  /\ \E body \in NumericBodies :
       last' = putBuildingsIn(models, buildingsData, body)
  /\ emitted' = emitted \cup emittedBy(last)
  /\ UNCHANGED <<buildingsFile, itcFile, pc, buildingsData, itcData,
                 loadCalls, assigned, exitCode, scan, models, viewer>>

NextConfig ==
  \/ CallLoadData
  \/ LoadBuildings
  \/ LoadItc
  \/ RegisterCors
  \/ RegisterStatic
  \/ Listen
  \/ ListenFails
  \/ PutBuildingsIn

SpecConfig == InitConfig /\ [][NextConfig]_vars

-----------------------------------------------------------------------------
(* SpecCamera: CameraController (App.tsx:235-351) in a rendered scene *)

MaxWalk == 2          \* the camera stays within MaxWalk moves of its start

\* event.key of a keyboard event
Keys == {"w", "W", "a", "s", "d", "q"}

toLowerCase(k) == IF k = "W" THEN "w" ELSE k

\* Heights OrbitControls may leave the camera at when it orbits the target
\* at distance 1 (lines 218-225).
OrbitHeights == { FixedHeight - 10, FixedHeight, FixedHeight + 10 }

\* App has finished loading an empty list and renders the scene;
\* CameraController has mounted with its refs as created.
InitCamera ==
  /\ buildingsFile = [t |-> "nokey", buildings |-> NoBuildings]
  /\ itcFile = [t |-> "ok", center |-> Center]
  /\ pc = "start"
  /\ buildingsData = << >>
  /\ itcData = [center |-> UNDEFINED]
  /\ loadCalls = 0
  /\ assigned = [buildingsData |-> 0, itcData |-> 0]
  /\ exitCode = -1
  /\ last = NoRequest
  /\ emitted = {}
  /\ scan = Idle
  /\ models = Shipped
  /\ viewer = [NotMounted EXCEPT !.phase = "finished", !.loading = FALSE]

CameraFrame ==
  UNCHANGED <<buildingsFile, itcFile, pc, buildingsData, itcData, loadCalls,
              assigned, exitCode, last, emitted, scan, models>>

\* lines 245-260: handleKeyDown
handleKeyDown ==
  /\ App_render(viewer) = "scene"
  /\ \E key \in Keys :
       LET k == toLowerCase(key)
       IN viewer' =
            [viewer EXCEPT
               !.step = "keydown",
               !.moveState =
                  CASE k = "w" -> [@ EXCEPT !.forward = TRUE]
                    [] k = "s" -> [@ EXCEPT !.backward = TRUE]
                    [] k = "a" -> [@ EXCEPT !.left = TRUE]
                    [] k = "d" -> [@ EXCEPT !.right = TRUE]
                    [] OTHER   -> @]
  /\ CameraFrame

\* lines 262-277: handleKeyUp
handleKeyUp ==
  /\ App_render(viewer) = "scene"
  /\ \E key \in Keys :
       LET k == toLowerCase(key)
       IN viewer' =
            [viewer EXCEPT
               !.step = "keyup",
               !.moveState =
                  CASE k = "w" -> [@ EXCEPT !.forward = FALSE]
                    [] k = "s" -> [@ EXCEPT !.backward = FALSE]
                    [] k = "a" -> [@ EXCEPT !.left = FALSE]
                    [] k = "d" -> [@ EXCEPT !.right = FALSE]
                    [] OTHER   -> @]
  /\ CameraFrame

\* lines 218-225: the frame update of OrbitControls (mouse drag) turns the
\* camera and moves it on the sphere around the target
OrbitUpdate ==
  /\ App_render(viewer) = "scene"
  /\ \E h \in Headings, y \in OrbitHeights :
       viewer' = [viewer EXCEPT !.step = "orbit", !.heading = h,
                                !.camera.y = y]
  /\ CameraFrame

\* lines 295-332: moveX and moveZ of one frame
moveOf(ms, cameraDirection) ==
  LET rightVector == Pt(0 - cameraDirection.z, cameraDirection.x)
      f == IF ms.forward THEN moveSpeed ELSE 0
      b == IF ms.backward THEN moveSpeed ELSE 0
      l == IF ms.left THEN moveSpeed ELSE 0
      r == IF ms.right THEN moveSpeed ELSE 0
  IN Pt(cameraDirection.x * f - cameraDirection.x * b
          - rightVector.x * l + rightVector.x * r,
        cameraDirection.z * f - cameraDirection.z * b
          - rightVector.z * l + rightVector.z * r)

WithinWalk(c) ==
  /\ c.x - StartCamera.x \in (0 - MaxWalk * moveSpeed)..(MaxWalk * moveSpeed)
  /\ c.z - StartCamera.z \in (0 - MaxWalk * moveSpeed)..(MaxWalk * moveSpeed)

\* lines 290-348 with the result of the movement given
cameraAfterMove(camera, move) ==
  IF move.x # 0 \/ move.z # 0
  THEN [camera EXCEPT !.x = @ + move.x, !.z = @ + move.z,
                      !.target = [x |-> camera.x + move.x, y |-> FixedHeight,
                                  z |-> camera.z + move.z]]
  ELSE camera

\* Variant of the frame callback that fixes the height where it moves.
useFrame_heightOnMove ==
  /\ App_render(viewer) = "scene"
  /\ LET move == moveOf(viewer.moveState, viewer.heading)
         moved == cameraAfterMove(viewer.camera, move)
     IN /\ WithinWalk(moved)
        /\ viewer' = [viewer EXCEPT
                        !.step = "frame",
                        !.camera = IF move.x # 0 \/ move.z # 0
                                   THEN [moved EXCEPT !.y = FixedHeight]
                                   ELSE moved]
  /\ CameraFrame

\* lines 290-348: the frame callback of CameraController
useFrame ==
  /\ App_render(viewer) = "scene"
  /\ LET move == moveOf(viewer.moveState, viewer.heading)
         moved == cameraAfterMove(viewer.camera, move)
     IN /\ WithinWalk(moved)
        /\ viewer' = [viewer EXCEPT !.step = "frame",
                                    !.camera = [moved EXCEPT !.y = FixedHeight]]
  /\ CameraFrame

NextCamera ==
  \/ handleKeyDown
  \/ handleKeyUp
  \/ OrbitUpdate
  \/ useFrame

SpecCamera == InitCamera /\ [][NextCamera]_vars

-----------------------------------------------------------------------------
(* SpecViewer: App (App.tsx:84-232) loading its buildings from the server.  *)
(* Coordinates of the datasets are in tenths like those of the viewer.      *)

\* Outlines placed from the centre: a square, a wall whose first vertex is
\* listed twice, a lone vertex, and a wall beyond the distance of the query.
ViewerFootprints ==
  LET at(dx, dz) == Pt(ITC_CENTER.x + dx, ITC_CENTER.z + dz)
  IN { << at(0, 0), at(100, 0), at(100, 100), at(0, 100) >>,
       << at(0, 0), at(0, 0), at(50, 0) >>,
       << at(0, 0) >>,
       << at(QueryDistance + 1000, 0), at(QueryDistance + 1100, 0) >> }

ViewerPool ==
  { [id |-> id, address |-> addressOf(id), height |-> heightOf(id),
     nodes |-> ns] : id \in {"59831701", "59831708", "200"},
                     ns \in ViewerFootprints }

ViewerDatasets ==
  { ds \in UNION { [1..n -> ViewerPool] : n \in 0..MaxBuildings } :
      \A i, j \in 1..Len(ds) : i # j => ds[i].id # ds[j].id }

\* A building list whose one building has no id property and stands at the
\* centre.
ViewerNoIdDataset ==
  << [id |-> UndefinedId, address |-> NULL, height |-> 0,
      nodes |-> << ITC_CENTER, Pt(ITC_CENTER.x + 50, ITC_CENTER.z) >>] >>

\* What may answer on port 5000 when the server does not: a 404, a 200 whose
\* body is no JSON, a 200 whose JSON has no buildings.
OtherOutcomes ==
  { ResponseOf(404, "invalid", << >>), ResponseOf(200, "invalid", << >>),
    ResponseOf(200, "nokey", << >>) }

InitViewer ==
  /\ buildingsFile \in
       { [t |-> "ok", buildings |-> ds] : ds \in ViewerDatasets }
       \cup { [t |-> "missing", buildings |-> NoBuildings],
              [t |-> "noid", buildings |-> ViewerNoIdDataset] }
  /\ itcFile = [t |-> "ok", center |-> Center]
  /\ pc = "start"
  /\ buildingsData = << >>
  /\ itcData = [center |-> UNDEFINED]
  /\ loadCalls = 0
  /\ assigned = [buildingsData |-> 0, itcData |-> 0]
  /\ exitCode = -1
  /\ last = NoRequest
  /\ emitted = {}
  /\ scan = Idle
  /\ models = Shipped
  /\ viewer = NotMounted

ViewerFrame ==
  UNCHANGED <<buildingsFile, itcFile, pc, buildingsData, itcData, loadCalls,
              assigned, exitCode, scan, models>>

\* lines 85-104: App mounts, its effect calls fetchBuildings, which sets
\* loading and error and sends the request
MountApp ==
  /\ viewer.phase = "unmounted"
  /\ viewer' = [viewer EXCEPT !.phase = "fetching", !.loading = TRUE,
                              !.error = NULL, !.step = "mount"]
  /\ UNCHANGED <<last, emitted>>
  /\ ViewerFrame

\* line 95 rejects: nothing accepts the connection
FetchRejects ==
  /\ viewer.phase = "fetching"
  /\ pc # "listening"
  /\ viewer' = [fetchBuildings(viewer, Rejected) EXCEPT !.outcome = Rejected]
  /\ UNCHANGED <<last, emitted>>
  /\ ViewerFrame

\* The server handles the request (index.js:76-179) and App reads the
\* response (lines 106-119)
ServerResponds ==
  /\ viewer.phase = "fetching"
  /\ pc = "listening"
  /\ last' = putBuildings(buildingsData, ViewerBody)
  /\ emitted' = emitted \cup emittedBy(last)
  /\ LET o == ResponseOf(last'.status, "ok", last'.payload)
     IN viewer' = [fetchBuildings(viewer, o) EXCEPT !.outcome = o]
  /\ ViewerFrame

\* Something else answers on the port
OtherResponds ==
  /\ viewer.phase = "fetching"
  /\ pc = "exited"
  /\ \E o \in OtherOutcomes :
       viewer' = [fetchBuildings(viewer, o) EXCEPT !.outcome = o]
  /\ UNCHANGED <<last, emitted>>
  /\ ViewerFrame

NextViewer ==
  \/ CallLoadData
  \/ LoadBuildingsFails
  \/ LoadBuildings
  \/ LoadItc
  \/ RegisterCors
  \/ RegisterStatic
  \/ Listen
  \/ ListenFails
  \/ MountApp
  \/ FetchRejects
  \/ ServerResponds
  \/ OtherResponds

SpecViewer == InitViewer /\ [][NextViewer]_vars

-----------------------------------------------------------------------------
(* Vocabulary of the properties *)

Put200 == last.kind = "put" /\ last.status = 200

\* A body whose position.x, position.z and distance are JSON numbers and
\* whose distance is not negative.
WellFormed(body) ==
  /\ body.position.t = "obj"
  /\ body.position.x.t = "num"
  /\ body.position.z.t = "num"
  /\ body.distance.t = "num"
  /\ body.distance.v >= 0

\* Ids the substitution data names, and the ids of one group.
GroupIds(modelId) ==
  UNION { Range(modelsData[i].buildingIds) :
            i \in { j \in 1..Len(modelsData) : modelsData[j].modelId = modelId } }

ModelIds == { modelsData[i].modelId : i \in 1..Len(modelsData) }

MappedIds == UNION { GroupIds(g) : g \in ModelIds }

\* Squared Euclidean distance, and the vertex-proximity test on it.
Dist2(p, q) == (p.x - q.x) * (p.x - q.x) + (p.z - q.z) * (p.z - q.z)

VertexInRange(B, p, d) == \E n \in Range(B.nodes) : Dist2(n, p) <= d * d

\* Entry i of the response comes from building B of the dataset.
OriginatesFrom(i, B) == last.filteredBuildings[i].id = B.id

\* Entry i of the response is B with its own outline.
IsGeometryEntryOf(i, B) ==
  /\ OriginatesFrom(i, B)
  /\ last.payload[i].address = B.address
  /\ last.payload[i].height = B.height
  /\ last.payload[i].nodes = B.nodes

\* p lies strictly inside the bounding box of B's outline.
StrictlyInside(p, B) ==
  /\ \E n \in Range(B.nodes) : n.x < p.x
  /\ \E n \in Range(B.nodes) : n.x > p.x
  /\ \E n \in Range(B.nodes) : n.z < p.z
  /\ \E n \in Range(B.nodes) : n.z > p.z

IndexOf(id) == CHOOSE k \in 1..Len(buildingsData) : buildingsData[k].id = id

-----------------------------------------------------------------------------
(* Properties *)

\* C1: after a valid PUT /buildings query, a building of the dataset is in
\* the response with its own nodes iff one of its vertices is within
\* distance of position and its id is not a key of the substitution mapping.
C1_GeometryIffInRangeAndUnmapped ==
  Put200 =>
    \A k \in 1..Len(buildingsData) :
      LET B == buildingsData[k]
      IN (\E i \in 1..Len(last.payload) : IsGeometryEntryOf(i, B))
         <=> (VertexInRange(B, last.position, last.distance)
              /\ B.id \notin DOMAIN modelsCache)

\* C1 witness: one building is returned with its outline while another,
\* whose outline surrounds position but has no vertex in range, is left out.
C1_Witness ==
  /\ Put200
  /\ WellFormed(last.body)
  /\ \E k \in 1..Len(buildingsData) :
       \E i \in 1..Len(last.payload) : IsGeometryEntryOf(i, buildingsData[k])
  /\ \E k \in 1..Len(buildingsData) :
       /\ StrictlyInside(last.position, buildingsData[k])
       /\ buildingsData[k].id \notin MappedIds
       /\ \A i \in 1..Len(last.payload) : ~OriginatesFrom(i, buildingsData[k])

\* Building B is represented in the response: by an entry of its own, or by
\* the entry of the model group its id maps to.
Represented(B) ==
  \/ \E i \in 1..Len(last.payload) : OriginatesFrom(i, B)
  \/ /\ B.id \in DOMAIN modelsCache
     /\ \E i \in 1..Len(last.filteredBuildings) :
          /\ "modelId" \in DOMAIN last.filteredBuildings[i]
          /\ last.filteredBuildings[i].modelId = modelsCache[B.id]

\* The nearest vertex of B lies at exactly d from p.
NearestAtExactly(B, p, d) ==
  /\ \E n \in Range(B.nodes) : Dist2(n, p) = d * d
  /\ \A n \in Range(B.nodes) : Dist2(n, p) >= d * d

\* Indices of the in-range buildings of the dataset that belong to group g.
InRangeOfGroup(g) ==
  { k \in 1..Len(buildingsData) :
      /\ buildingsData[k].id \in GroupIds(g)
      /\ VertexInRange(buildingsData[k], last.position, last.distance) }

\* Entries of the response that carry modelId g.
EntriesWithModelId(g) ==
  { i \in 1..Len(last.payload) :
      /\ "modelId" \in DOMAIN last.payload[i]
      /\ last.payload[i].modelId = g }

modelUrlOf(g) ==
  modelsData[CHOOSE j \in 1..Len(modelsData) : modelsData[j].modelId = g].modelUrl

\* C2: when two or more in-range buildings map to one model group, the
\* response holds exactly one entry with the group's modelId, its nodes are
\* empty, and no other entry comes from a building of the group.
C2_OneEntryPerGroup ==
  Put200 =>
    \A g \in ModelIds :
      Cardinality(InRangeOfGroup(g)) >= 2 =>
        /\ Cardinality(EntriesWithModelId(g)) = 1
        /\ \A i \in EntriesWithModelId(g) : last.payload[i].nodes = << >>
        /\ Cardinality({ i \in 1..Len(last.payload) :
                           last.filteredBuildings[i].id \in GroupIds(g) }) = 1

\* C3: a response entry that stands for a substituted building is
\* { address, height, nodes: [], modelId, modelUrl } with the modelId and
\* modelUrl of the building's group; any other entry is
\* { address, height, nodes }.
C3_EntryShapes ==
  Put200 =>
    \A i \in 1..Len(last.payload) :
      LET id == last.filteredBuildings[i].id
          e  == last.payload[i]
      IN IF id \in MappedIds
         THEN /\ DOMAIN e = {"address", "height", "nodes", "modelId", "modelUrl"}
              /\ e.nodes = << >>
              /\ e.modelId = modelsCache[id]
              /\ e.modelUrl = modelUrlOf(modelsCache[id])
         ELSE DOMAIN e = {"address", "height", "nodes"}

\* C4: a PUT /buildings body that lacks position or distance, whose position
\* lacks x or z, in which one of the three is not a number, or whose
\* distance is negative, gets a client error and no scan of buildingsData.
C4_MalformedBodyRejected ==
  (last.kind = "put" /\ ~WellFormed(last.body)) =>
    (last.status = 400 /\ ~last.scanned)

\* C5: when buildings.json or itc.json is missing, is not JSON or does not
\* hold the expected structure, the server never listens.
C5_BadSourceNeverListens ==
  (buildingsFile.t # "ok" \/ itcFile.t # "ok") => pc # "listening"

\* C6: loadData is called once and has assigned buildingsData and itcData,
\* once each, before the server listens; a handler has answered only in such
\* a state, and neither variable is assigned a second time.
C6_LoadOnceBeforeListening ==
  /\ loadCalls <= 1
  /\ assigned.buildingsData <= 1
  /\ assigned.itcData <= 1
  /\ (pc = "listening" \/ last.kind # "none") =>
       /\ pc = "listening"
       /\ loadCalls = 1
       /\ assigned.buildingsData = 1
       /\ assigned.itcData = 1
       /\ buildingsData = buildingsFile.buildings
       /\ itcData = [center |-> itcFile.center]

\* C6 witness: the server listens and has answered a query.
C6_Witness ==
  /\ pc = "listening"
  /\ Put200
  /\ Len(last.payload) > 0

\* C7: the entries of the response are in the order in which the buildings
\* they come from stand in the dataset.
C7_OrderPreserved ==
  Put200 =>
    /\ \A i \in 1..Len(last.payload) :
         LET B == buildingsData[IndexOf(last.filteredBuildings[i].id)]
         IN last.payload[i].address = B.address
            /\ last.payload[i].height = B.height
    /\ \A i, j \in 1..Len(last.payload) :
         i < j => IndexOf(last.filteredBuildings[i].id)
                    < IndexOf(last.filteredBuildings[j].id)

\* C7 witness: a response of two entries in dataset order although the
\* building of the second is nearer to position than that of the first.
C7_Witness ==
  /\ Put200
  /\ Len(last.payload) >= 2
  /\ LET B1 == buildingsData[IndexOf(last.filteredBuildings[1].id)]
         B2 == buildingsData[IndexOf(last.filteredBuildings[2].id)]
     IN /\ IndexOf(B1.id) < IndexOf(B2.id)
        /\ \E m \in Range(B2.nodes) :
             \A n \in Range(B1.nodes) :
               Dist2(m, last.position) < Dist2(n, last.position)

\* C8: a building whose nearest vertex lies at exactly distance from
\* position is represented in the response.
C8_BoundaryInclusive ==
  Put200 =>
    \A k \in 1..Len(buildingsData) :
      NearestAtExactly(buildingsData[k], last.position, last.distance)
        => Represented(buildingsData[k])

\* C8 witness: such a building, at a distance that is not 0, in the response.
C8_Witness ==
  /\ Put200
  /\ last.distance > 0
  /\ \E k \in 1..Len(buildingsData) :
       /\ NearestAtExactly(buildingsData[k], last.position, last.distance)
       /\ \E i \in 1..Len(last.payload) : OriginatesFrom(i, buildingsData[k])

\* C9: with distance 0 every entry of the response comes from a building
\* that has a vertex equal to position.
C9_DistanceZero ==
  (Put200 /\ last.distance = 0) =>
    \A k \in 1..Len(buildingsData) :
      (\E i \in 1..Len(last.payload) : OriginatesFrom(i, buildingsData[k]))
        => \E n \in Range(buildingsData[k].nodes) :
             n.x = last.position.x /\ n.z = last.position.z

\* C9 witness: a distance-0 query that returns a building with a vertex at
\* position and leaves out an unmapped building that has none there.
C9_Witness ==
  /\ Put200
  /\ WellFormed(last.body)
  /\ last.distance = 0
  /\ \E k \in 1..Len(buildingsData) :
       /\ \E i \in 1..Len(last.payload) : IsGeometryEntryOf(i, buildingsData[k])
       /\ \E n \in Range(buildingsData[k].nodes) : n = last.position
  /\ \E k \in 1..Len(buildingsData) :
       /\ buildingsData[k].id \notin MappedIds
       /\ \A n \in Range(buildingsData[k].nodes) : n # last.position
       /\ \A i \in 1..Len(last.payload) : ~OriginatesFrom(i, buildingsData[k])

\* C10: with an empty building list every valid query is answered 200 with
\* { buildings: [] }.
C10_EmptyDataset ==
  (last.kind = "put" /\ WellFormed(last.body) /\ buildingsData = << >>) =>
    (last.status = 200 /\ last.payload = << >>)

\* C10 witness: a valid query answered from an empty list that was loaded
\* from a file holding { buildings: [] }.
C10_Witness ==
  /\ last.kind = "put"
  /\ WellFormed(last.body)
  /\ buildingsFile.t = "ok"
  /\ buildingsData = << >>
  /\ last.status = 200

\* C11: every entry of the response, geometry or substituted, has a height
\* and an address field, and they hold the height and the address (null
\* included) of the dataset building the entry comes from.
C11_HeightAndAddressPassThrough ==
  Put200 =>
    \A i \in 1..Len(last.payload) :
      \E k \in 1..Len(buildingsData) :
        /\ OriginatesFrom(i, buildingsData[k])
        /\ {"address", "height"} \subseteq DOMAIN last.payload[i]
        /\ last.payload[i].height = buildingsData[k].height
        /\ last.payload[i].address = buildingsData[k].address

\* C11 witness: a response with a substituted entry and a geometry entry,
\* one of them with address null.
C11_Witness ==
  /\ Put200
  /\ \E i, j \in 1..Len(last.payload) :
       /\ last.filteredBuildings[i].id \in MappedIds
       /\ last.payload[i].nodes = << >>
       /\ last.filteredBuildings[j].id \notin MappedIds
       /\ last.payload[j].nodes # << >>
       /\ NULL \in {last.payload[i].address, last.payload[j].address}
       /\ last.payload[i].height > 0

\* C12: when itc.json holds a center, GET /start answers { x, z } equal to
\* that center, whatever was answered before.
C12_StartReturnsCenter ==
  (last.kind = "start" /\ itcFile.t = "ok") =>
    /\ last.status = 200
    /\ last.payload = [x |-> itcFile.center.x, z |-> itcFile.center.z]

\* C12 witness: GET /start answered, after a query that emitted a group,
\* with the center of the file, which is not symmetric in x and z.
C12_Witness ==
  /\ last.kind = "start"
  /\ emitted # {}
  /\ last.status = 200
  /\ last.payload = Center
  /\ last.payload.x # last.payload.z

\* C13: while the server listens the reference point is present and
\* GET /start succeeds.
C13_StartNeverFails ==
  pc = "listening" =>
    /\ itcData.center # UNDEFINED
    /\ (last.kind = "start" => last.status = 200)

\* C16: GET /health answers a status flag, the number of buildings of the
\* loaded list and the loaded reference coordinate.
C16_HealthReportsLoadedData ==
  last.kind = "health" =>
    /\ last.status = 200
    /\ last.payload.status = "ok"
    /\ last.payload.buildingsLoaded = Len(buildingsFile.buildings)
    /\ last.payload.itcCenter = itcFile.center

\* C16 witness: GET /health answered for a list of two buildings and a
\* center.
C16_Witness ==
  /\ last.kind = "health"
  /\ last.payload.buildingsLoaded = 2
  /\ last.payload.itcCenter = Center

\* C18: once a PUT /buildings request has passed validation the handler
\* completes and the request is answered 200.
C18_ValidatedQuerySucceeds ==
  (last.kind = "put" /\ last.scanned) => last.status = 200

\* Indices of the buildings of the dataset that a query (p, d) keeps: those
\* in range that are unmapped or are the first in-range member of their group.
KeptIndices(p, d) ==
  { k \in 1..Len(buildingsData) :
      /\ VertexInRange(buildingsData[k], p, d)
      /\ \/ buildingsData[k].id \notin MappedIds
         \/ \A j \in 1..(k - 1) :
              ~ /\ VertexInRange(buildingsData[j], p, d)
                /\ buildingsData[j].id \in MappedIds
                /\ modelsCache[buildingsData[j].id]
                     = modelsCache[buildingsData[k].id] }

\* The n-th smallest element of a set of numbers.
RECURSIVE NthOf(_, _)
NthOf(S, n) ==
  LET m == CHOOSE x \in S : \A y \in S : x <= y
  IN IF n = 1 THEN m ELSE NthOf(S \ {m}, n - 1)

\* The entry a kept building gives when the query is answered on its own.
EntryAlone(B) ==
  [address |-> B.address, height |-> B.height,
   nodes |-> IF B.id \in MappedIds THEN << >> ELSE B.nodes]

\* The response that the query (p, d) gets when it is the only query.
ResponseAlone(p, d) ==
  [n \in 1..Cardinality(KeptIndices(p, d)) |->
     EntryAlone(buildingsData[NthOf(KeptIndices(p, d), n)])]

\* C14: once the server listens no step changes buildingsData or itcData;
\* (modelsData and modelsCache are constants of the module).
C14_HandlersLeaveDataUnchanged ==
  [][pc = "listening" =>
       (buildingsData' = buildingsData /\ itcData' = itcData)]_vars

\* C14 witness: after an earlier query had emitted the group, a query got a
\* substituted entry (nodes []), and the stored building it comes from
\* still has its nodes.
C14_Witness ==
  /\ Put200
  /\ emitted # {}
  /\ \E i \in 1..Len(last.payload) :
       /\ last.payload[i].nodes = << >>
       /\ \E k \in 1..Len(buildingsData) :
            /\ OriginatesFrom(i, buildingsData[k])
            /\ buildingsData[k].nodes # << >>
            /\ buildingsData[k] = buildingsFile.buildings[k]

\* C15: the response to a query is the response the same query gets when
\* it is run alone on the dataset, whatever groups earlier queries emitted.
C15_ResponseAsIfAlone ==
  Put200 => last.payload = ResponseAlone(last.position, last.distance)

\* C15 witness: a query emits a group that an earlier query had emitted.
C15_Witness ==
  /\ Put200
  /\ emitted # {}
  /\ emittedBy(last) \cap emitted # {}

\* C17: a rejected PUT /buildings request leaves the state of the process
\* as it was, and a PUT /buildings response is either 200 with the whole
\* result list or an error with no list.
C17_RejectedOrComplete ==
  /\ [](last.kind = "put" =>
          \/ /\ last.status = 200
             /\ Len(last.payload)
                  = Cardinality(KeptIndices(last.position, last.distance))
          \/ /\ last.status \in {400, 500}
             /\ last.payload = << >>)
  /\ [][(last'.kind = "put" /\ last'.status = 400) =>
          UNCHANGED <<buildingsFile, itcFile, pc, buildingsData, itcData,
                      loadCalls, assigned, exitCode>>]_vars

\* C17 witness: a rejected request, answered after a query that emitted a
\* group.
C17_Witness ==
  /\ last.kind = "put"
  /\ last.status = 400
  /\ ~last.scanned
  /\ emitted # {}
  /\ Len(buildingsData) > 0

\* C19: for each model group with an in-range member the response has one
\* entry of the group, and it comes from the first in-range member in
\* dataset order, with that member's address and height; a group without an
\* in-range member has no entry.
C19_FirstInRangeMember ==
  Put200 =>
    \A g \in ModelIds :
      LET entries == { i \in 1..Len(last.payload) :
                         last.filteredBuildings[i].id \in GroupIds(g) }
      IN IF InRangeOfGroup(g) = {}
         THEN entries = {}
         ELSE LET first == buildingsData[NthOf(InRangeOfGroup(g), 1)]
              IN /\ Cardinality(entries) = 1
                 /\ \A i \in entries :
                      /\ OriginatesFrom(i, first)
                      /\ last.payload[i].address = first.address
                      /\ last.payload[i].height = first.height

\* C19 witness: the first member of the group in the dataset is out of
\* range and the entry comes from the second.
C19_Witness ==
  /\ Put200
  /\ Len(buildingsData) >= 2
  /\ buildingsData[1].id \in MappedIds
  /\ buildingsData[2].id \in MappedIds
  /\ ~VertexInRange(buildingsData[1], last.position, last.distance)
  /\ \E i \in 1..Len(last.payload) : OriginatesFrom(i, buildingsData[2])

\* visits is in the order of the dataset: buildings in index order, and the
\* nodes of one building in index order.
VisitsInOrder(visits) ==
  \A a, b \in 1..Len(visits) :
    a < b => \/ visits[a][1] < visits[b][1]
             \/ (visits[a][1] = visits[b][1] /\ visits[a][2] < visits[b][2])

\* The statement-by-statement handler answers what the route answers.
ScanAgreesWithRoute ==
  (scan.phase = "done" /\ scan.kind = "put") =>
    LET r == putBuildings(buildingsData, scan.body)
    IN scan.status = r.status /\ scan.payload = r.payload

\* C20: a request received while the server listens is eventually answered,
\* once; the handler tests each vertex of each building at most once, in
\* dataset order.
C20_EveryRequestAnsweredOnce ==
  /\ (scan.phase = "received") ~> (scan.phase = "done" /\ scan.responses = 1)
  /\ [](scan.responses <= 1)
  /\ [](VisitsInOrder(scan.visits))
  /\ [](scan.phase = "done" => scan.responses = 1)

\* C20 witness: a query answered 200 after a scan that tested the nodes of
\* two buildings, left one of them at its first node in range, and dropped a
\* second member of a group.
C20_Witness ==
  /\ scan.phase = "done"
  /\ scan.kind = "put"
  /\ scan.status = 200
  /\ scan.responses = 1
  /\ Len(buildingsData) >= 2
  /\ \E a, b \in 1..Len(scan.visits) : scan.visits[a][1] # scan.visits[b][1]
  /\ \E k \in 1..Len(buildingsData) :
       /\ \E a \in 1..Len(scan.visits) : scan.visits[a][1] = k
       /\ \A a \in 1..Len(scan.visits) :
            scan.visits[a] # <<k, Len(buildingsData[k].nodes)>>
  /\ NullPolygon \in Range(scan.out)

\* Indices of the entries of modelsData whose modelId is g.
GroupsNamed(g) == { j \in 1..Len(modelsData) : modelsData[j].modelId = g }

\* C21: in every state, the substitution mapping has the mapped ids of
\* modelsData as its keys, gives each of them one modelId, and that modelId
\* is the modelId of exactly one entry of modelsData, which lists the id;
\* every modelId a query has read from it is a modelId of modelsData.
C21_MappingWellFormed ==
  /\ \A g \in emitted \cup emittedBy(last) : g \in ModelIds
  /\ DOMAIN modelsCache = MappedIds
  /\ \A b \in DOMAIN modelsCache :
       /\ modelsCache[b] \in ModelIds
       /\ Cardinality(GroupsNamed(modelsCache[b])) = 1
       /\ b \in GroupIds(modelsCache[b])
       /\ Cardinality({ j \in 1..Len(modelsData) :
                          b \in Range(modelsData[j].buildingIds) }) <= 1

\* C21 witness: the server has answered two queries that both read the
\* mapping and emitted the group of an in-range member.
C21_Witness ==
  /\ pc = "listening"
  /\ Put200
  /\ emitted # {}
  /\ emittedBy(last) # {}
  /\ \E k \in 1..Len(buildingsData) :
       /\ buildingsData[k].id \in DOMAIN modelsCache
       /\ \E i \in 1..Len(last.filteredBuildings) :
            /\ OriginatesFrom(i, buildingsData[k])
            /\ last.filteredBuildings[i].modelId = modelsCache[buildingsData[k].id]

\* Indices of the in-range buildings whose id the mapping sends to a
\* modelId that no entry of the substitution data has.
InRangeDangling ==
  { k \in 1..Len(buildingsData) :
      /\ VertexInRange(buildingsData[k], last.position, last.distance)
      /\ buildingsData[k].id \in DOMAIN models.cache
      /\ models.cache[buildingsData[k].id] # ""
      /\ \A j \in 1..Len(models.data) :
           models.data[j].modelId # models.cache[buildingsData[k].id] }

\* With the substitution data of the file, the route over a configuration
\* is the route.
ConfigAgreesWithRoute ==
  (models = Shipped /\ last.kind = "put") =>
    last = putBuildings(buildingsData, last.body)

\* C22: a query that meets an in-range building whose id maps to a modelId
\* without a model group is answered with an error and no building list; no
\* entry of a 200 response has an undefined modelUrl, and none is the
\* geometry of such a building.
C22_DanglingModelIdIsAnError ==
  (last.kind = "put" /\ last.scanned) =>
    /\ InRangeDangling # {} => (last.status = 500 /\ last.payload = << >>)
    /\ last.status = 200 =>
         \A i \in 1..Len(last.filteredBuildings) :
           LET e == last.filteredBuildings[i]
           IN /\ "modelUrl" \in DOMAIN e => e.modelUrl # UndefinedUrl
              /\ \A k \in InRangeDangling : e.id # buildingsData[k].id

\* C22 witness: a query over a mapping with a dangling modelId found an
\* unmapped building in range and a building of the dangling id in range,
\* and was answered 500.
C22_Witness ==
  /\ last.kind = "put"
  /\ last.status = 500
  /\ models # Shipped
  /\ InRangeDangling # {}
  /\ \E k \in 1..Len(buildingsData) :
       /\ k \notin InRangeDangling
       /\ buildingsData[k].id \notin DOMAIN models.cache
       /\ VertexInRange(buildingsData[k], last.position, last.distance)

\* Building k of the dataset is a candidate of the last query: it is in the
\* list the range filter of lines 155-158 hands to the substitution.
IsCandidate(k) ==
  \E i \in 1..Len(inRangeBuildings(buildingsData, last.position, last.distance)) :
    inRangeBuildings(buildingsData, last.position, last.distance)[i].id
      = buildingsData[k].id

\* C23: for a query over the substitution data of the file, a building with
\* one vertex is a candidate iff that vertex is within distance of position,
\* a building with no vertex is never a candidate, and a dataset with such
\* buildings is answered 200; an unmapped candidate with one vertex is
\* returned with its one node.
C23_SparseBuildingsRangeTested ==
  (last.kind = "put" /\ last.scanned /\ models = Shipped) =>
    /\ (\E k \in 1..Len(buildingsData) : Len(buildingsData[k].nodes) < 2)
         => last.status = 200
    /\ \A k \in 1..Len(buildingsData) :
         LET B == buildingsData[k]
         IN /\ Len(B.nodes) = 0 =>
                 /\ ~IsCandidate(k)
                 /\ \A i \in 1..Len(last.payload) : ~OriginatesFrom(i, B)
            /\ Len(B.nodes) = 1 =>
                 /\ IsCandidate(k)
                      <=> Dist2(B.nodes[1], last.position)
                            <= last.distance * last.distance
                 /\ B.id \notin MappedIds =>
                      ((\E i \in 1..Len(last.payload) : IsGeometryEntryOf(i, B))
                         <=> IsCandidate(k))

\* C23 witness: a query answered 200 over a dataset with a building without
\* vertices and a one-vertex building that is returned; and the same
\* one-vertex building is out of range of another position.
C23_Witness ==
  /\ last.kind = "put"
  /\ last.status = 200
  /\ models = Shipped
  /\ \E k \in 1..Len(buildingsData) : Len(buildingsData[k].nodes) = 0
  /\ \E k \in 1..Len(buildingsData) :
       /\ Len(buildingsData[k].nodes) = 1
       /\ \E i \in 1..Len(last.payload) : IsGeometryEntryOf(i, buildingsData[k])
       /\ \E p \in Coords :
            ~VertexInRange(buildingsData[k], Pt(p, p), last.distance)

\* C24: after a frame callback of CameraController the camera is at height
\* 1.8; a frame changes nothing of the camera but x, z, the target and the
\* height it resets; a key event changes nothing of the camera.
C24_CameraHeightFixed ==
  /\ [](viewer.step = "frame" => viewer.camera.y = FixedHeight)
  /\ [][ /\ viewer'.step = "frame" =>
              /\ viewer'.camera.y = FixedHeight
              /\ viewer'.heading = viewer.heading
              /\ viewer'.moveState = viewer.moveState
              /\ viewer.moveState = NoMove =>
                   /\ viewer'.camera.x = viewer.camera.x
                   /\ viewer'.camera.z = viewer.camera.z
         /\ (viewer'.step \in {"keydown", "keyup"} /\ viewer' # viewer) =>
              /\ viewer'.camera = viewer.camera
              /\ viewer'.heading = viewer.heading ]_vars

\* C24 witness: a frame ran with W and D down after the orbit controls had
\* turned the camera, and the camera is away from its start in x and in z.
C24_Witness ==
  /\ viewer.step = "frame"
  /\ viewer.moveState.forward
  /\ viewer.moveState.right
  /\ viewer.heading # NotMounted.heading
  /\ viewer.camera.x # StartCamera.x
  /\ viewer.camera.z # StartCamera.z
  /\ viewer.camera.y = FixedHeight

\* Indices of the buildings of the dataset in range of the last query.
InRange ==
  { k \in 1..Len(buildingsData) :
      VertexInRange(buildingsData[k], last.position, last.distance) }

InRangeUnmapped ==
  { k \in InRange : buildingsData[k].id \notin DOMAIN modelsCache }

\* Model groups with a member in range of the last query.
GroupsInRange ==
  { modelsCache[buildingsData[k].id] : k \in InRange \ InRangeUnmapped }

\* C25: the number of entries of a PUT /buildings response is the number of
\* in-range unmapped buildings plus the number of model groups with an
\* in-range member, and is at most the number of in-range buildings.
C25_EntryCount ==
  Put200 =>
    /\ Len(last.payload)
         = Cardinality(InRangeUnmapped) + Cardinality(GroupsInRange)
    /\ Len(last.payload) <= Cardinality(InRange)

\* C25 witness: two members of one group are in range and the response has
\* fewer entries than there are in-range buildings.
C25_Witness ==
  /\ Put200
  /\ WellFormed(last.body)
  /\ Cardinality(InRange \ InRangeUnmapped) >= 2
  /\ Cardinality(GroupsInRange) = 1
  /\ Len(last.payload) < Cardinality(InRange)

\* Entry i of the last response is a substituted entry: filterPolygon built
\* it for a building whose id the mapping knows.
IsSubstituted(i) == last.filteredBuildings[i].id \in DOMAIN models.cache

\* C26: in a PUT /buildings response an entry has an empty nodes list iff it
\* is a substituted entry; a geometry entry has at least one node, and its
\* nodes are the nodes of the building it comes from, in their order.
C26_EmptyNodesIffSubstituted ==
  (last.kind = "put" /\ last.status = 200) =>
    \A i \in 1..Len(last.payload) :
      /\ last.payload[i].nodes = << >> <=> IsSubstituted(i)
      /\ ~IsSubstituted(i) =>
           /\ Len(last.payload[i].nodes) >= 1
           /\ \E k \in 1..Len(buildingsData) :
                /\ OriginatesFrom(i, buildingsData[k])
                /\ last.payload[i].nodes = buildingsData[k].nodes

\* C26 witness: the response holds the entry of a group, with no nodes, and
\* the dataset holds an unmapped building without vertices, which is not in
\* the response.
C26_Witness ==
  /\ last.kind = "put"
  /\ last.status = 200
  /\ models = Shipped
  /\ \E i \in 1..Len(last.payload) :
       IsSubstituted(i) /\ last.payload[i].nodes = << >>
  /\ \E k \in 1..Len(buildingsData) :
       /\ buildingsData[k].nodes = << >>
       /\ buildingsData[k].id \notin DOMAIN models.cache
       /\ \A i \in 1..Len(last.payload) : ~OriginatesFrom(i, buildingsData[k])

RECURSIVE IsSubsequence(_, _)
IsSubsequence(a, b) ==
  IF a = << >> THEN TRUE
  ELSE IF b = << >> THEN FALSE
  ELSE IF Head(a) = Head(b) THEN IsSubsequence(Tail(a), Tail(b))
  ELSE IsSubsequence(a, Tail(b))

\* The geometry entries of a response, as the client gets them.
GeometryEntries(response) ==
  serializeBuildings(responseBuildingsOf(
    SelectSeq(response.filteredBuildings,
              LAMBDA e : e.id \notin DOMAIN modelsCache)))

\* The response to the query of the last request with distance d.
ResponseAt(d) ==
  putBuildings(buildingsData,
               [position |-> PosObj(Num(last.position.x), Num(last.position.z)),
                distance |-> Num(d)])

\* C27: for the dataset and position of a query answered 200 with distance
\* d1 and any d2 >= d1 whose query is answered 200, the geometry entries for
\* d1 are a subsequence of those for d2, the groups emitted for d1 are
\* emitted for d2, and the response for d2 has at least as many entries.
C27_MonotoneInDistance ==
  (Put200 /\ last.distance >= 0) =>
    \A d2 \in Distances :
      (d2 >= last.distance /\ ResponseAt(d2).status = 200) =>
        /\ IsSubsequence(GeometryEntries(last), GeometryEntries(ResponseAt(d2)))
        /\ emittedBy(last) \subseteq emittedBy(ResponseAt(d2))
        /\ Len(last.payload) <= Len(ResponseAt(d2).payload)

\* C27 witness: a query returned a geometry entry and no group, and a
\* greater distance from the same position returns that entry and a group.
C27_Witness ==
  /\ Put200
  /\ WellFormed(last.body)
  /\ Len(GeometryEntries(last)) >= 1
  /\ emittedBy(last) = {}
  /\ \E d2 \in Distances :
       /\ d2 > last.distance
       /\ ResponseAt(d2).status = 200
       /\ emittedBy(ResponseAt(d2)) # {}
       /\ Len(ResponseAt(d2).payload) > Len(last.payload)
       /\ IsSubsequence(GeometryEntries(last), GeometryEntries(ResponseAt(d2)))

\* The fetch came to a failure: it rejected, the status is not OK, or the
\* body of the response is no JSON.
Failed(outcome) ==
  \/ outcome.t = "rejected"
  \/ outcome.status \notin 200..299
  \/ outcome.json = "invalid"

\* C28: once fetchBuildings has finished loading is false; after a failure
\* error is set and buildings is the empty list; after a success error is
\* null and buildings is the list of the response, or empty when it has
\* none; until then App renders the loading text, and it renders the scene
\* only when loading is false and error is null.
C28_LoadEndsInOneOfTwoStates ==
  /\ viewer.phase = "finished" =>
       /\ viewer.loading = FALSE
       /\ Failed(viewer.outcome) =>
            (viewer.error # NULL /\ viewer.buildings = << >>)
       /\ ~Failed(viewer.outcome) =>
            /\ viewer.error = NULL
            /\ viewer.buildings = IF viewer.outcome.json = "nokey" THEN << >>
                                  ELSE viewer.outcome.buildings
  /\ viewer.phase \in {"unmounted", "fetching"} =>
       App_render(viewer) = "loading"
  /\ App_render(viewer) = "scene" =>
       (viewer.loading = FALSE /\ viewer.error = NULL)
  /\ Len(sceneOf(viewer)) > 0 => App_render(viewer) = "scene"

\* C28 witness: the load finished with the list of a response of the server
\* that holds buildings, and the scene is rendered.
C28_Witness ==
  /\ viewer.phase = "finished"
  /\ ~Failed(viewer.outcome)
  /\ last.kind = "put"
  /\ viewer.buildings = last.payload
  /\ Len(viewer.buildings) >= 2
  /\ App_render(viewer) = "scene"

\* The load finished in the error state after a response that was not OK.
C28_WitnessError ==
  /\ viewer.phase = "finished"
  /\ viewer.outcome.t = "response"
  /\ viewer.outcome.status = 500
  /\ viewer.error # NULL
  /\ App_render(viewer) = "error"

\* App shows the scene of the list the server answered its query with.
SceneOfServer ==
  /\ App_render(viewer) = "scene"
  /\ viewer.outcome.t = "response"
  /\ last.kind = "put"
  /\ last.status = 200
  /\ viewer.buildings = last.payload

\* The pairs of consecutive vertices of an outline, the last one closing it
\* to the first, that are two distinct points; numbered from 0.
DistinctPairs(nodes) ==
  { j \in 0..(Len(nodes) - 1) :
      nodes[j + 1] # nodes[((j + 1) % Len(nodes)) + 1] }

\* C29: in the scene of a server response, the entry of a substituted
\* building and any entry with fewer than two nodes have no walls, so no
\* wall comes from a building of a model group; an entry with two or more
\* nodes has one wall for each pair of consecutive distinct vertices, the
\* closing pair included, from the first vertex of the pair to the second.
C29_SubstitutedBuildingsHaveNoWalls ==
  SceneOfServer =>
    /\ Len(sceneOf(viewer)) = Len(viewer.buildings)
    /\ \A i \in 1..Len(viewer.buildings) :
         LET b == viewer.buildings[i]
             walls == sceneOf(viewer)[i]
             n == Len(b.nodes)
         IN /\ last.filteredBuildings[i].id \in MappedIds => walls = << >>
            /\ n < 2 => walls = << >>
            /\ n >= 2 =>
                 /\ Len(walls) = Cardinality(DistinctPairs(b.nodes))
                 /\ { walls[w].key : w \in 1..Len(walls) } = DistinctPairs(b.nodes)
                 /\ \A w \in 1..Len(walls) :
                      /\ walls[w].from = b.nodes[walls[w].key + 1]
                      /\ walls[w].to = b.nodes[((walls[w].key + 1) % n) + 1]
    /\ \A k \in 1..Len(buildingsData) :
         buildingsData[k].id \in MappedIds =>
           \A i \in 1..Len(viewer.buildings) :
             OriginatesFrom(i, buildingsData[k]) => sceneOf(viewer)[i] = << >>

\* C29 witness: the scene holds the entry of a group member whose outline in
\* the dataset has edges, with no walls, and an outline of three nodes with
\* a repeated vertex, with its two walls, the closing one among them.
C29_Witness ==
  /\ SceneOfServer
  /\ \E i \in 1..Len(viewer.buildings) :
       /\ last.filteredBuildings[i].id \in MappedIds
       /\ sceneOf(viewer)[i] = << >>
       /\ \E k \in 1..Len(buildingsData) :
            /\ OriginatesFrom(i, buildingsData[k])
            /\ Len(buildingsData[k].nodes) >= 3
  /\ \E i \in 1..Len(viewer.buildings) :
       /\ Len(viewer.buildings[i].nodes) = 3
       /\ Len(sceneOf(viewer)[i]) = 2
       /\ \E w \in 1..2 : sceneOf(viewer)[i][w].key = 2

====
